---- MODULE Spec2Model ----
(***************************************************************************)
(* Model of the blog backend: the Post/Image service (ReaderService,       *)
(* PosterService), the PostgreSQL repository, the MinIO repository and     *)
(* the HTTP handlers that map service errors to status codes.              *)
(*                                                                         *)
(* Every inbound request runs on its own worker.  A worker executes the    *)
(* service method one store call at a time, so that the store calls of     *)
(* concurrent requests interleave exactly as the statements of the Go      *)
(* code can.  Each store call is one SQL statement or one object-store     *)
(* request and is atomic.                                                  *)
(***************************************************************************)
EXTENDS Integers, FiniteSets, Sequences, TLC

(* ------------------------------ bounds --------------------------------- *)
\* number of concurrent request workers
NumProcs == 2
\* total number of requests served in one behaviour
MaxCalls == 3
\* number of image uploads in one behaviour
MaxImages == 1
\* total number of requests in one behaviour of the specification that
\* combines the four author-only operations
MaxAuthorCalls == 2
\* total number of requests in one behaviour of the specification that
\* combines the six handlers that need an identity
MaxHandlerCalls == 1
\* total number of requests in one behaviour of the specification that
\* combines registration, login and refresh
MaxAuthCalls == 2

Procs == 1..NumProcs

(* ------------------------------ inputs --------------------------------- *)
\* user ids of the registered authors
Authors  == {1, 2}
Keys     == {"k1", "k2"}
\* request bodies: a title and a content
Bodies   == {[title |-> "T1", content |-> "C1"], [title |-> "T2", content |-> "C2"]}
\* post ids a request path can name: every id the store can have generated
PostIds  == 1..Cardinality(Keys)

\* registration inputs; "admin" stands for any role outside the enum
Emails    == {"a@x.com", "b@x.com"}
Passwords == {"pw1", "pw2"}
Author    == "author"
Reader    == "reader"
ReqRoles  == {Author, Reader, "admin"}

\* types.PostStatus values; "archived" stands for any other string a
\* request body can carry
Draft     == "draft"
Published == "published"
ReqStatuses == {Draft, Published, "archived"}

(* ------------------------------ errors --------------------------------- *)
NoError                          == "nil"
ErrorHttpIncorrectUser           == "incorrect user"
ErrorRepositoryUserAlreadyExsist == "user already exsist"
ErrorKeyIdempotencyAlreadyUsed   == "key idempotency already used"
ErrorServiceNoAccess             == "no access to content"
ErrorServiceIncorrectData        == "incorrect data"
ErrorRepositoryEmailNotExsist    == "email not exsist"
ErrorRepositoryBadRole           == "bad role"
ErrorInvalidToken                == "invalid token"
ErrNoRows                        == "sql: no rows in result set"
StoreFailure                     == "store failure"

VARIABLES
    users,      \* table users: set of rows
    issued,     \* refresh tokens signed by the token issuer so far
    expired,    \* number of signed refresh tokens whose expiry time has passed
                \* (every token lives equally long: the oldest expire first)
    posts,      \* table posts: set of rows
    images,     \* table images: set of rows
    objects,    \* object names present in the MinIO bucket
    postSeq,    \* number of post ids generated so far (uuid_generate_v4)
    imageSeq,   \* number of image ids generated so far (uuid.NewUUID)
    pc,         \* position of each worker in its service method
    req,        \* arguments of the request each worker serves
    loc,        \* local variables of the service method (postDB, imageId)
    res,        \* error returned by the service and HTTP status answered
    calls       \* number of requests accepted so far

vars == <<users, issued, expired, posts, images, objects, postSeq, imageSeq, pc, req, loc, res, calls>>

NoReq == [op |-> "none"]
NoLoc == [postDB |-> "none"]
NoRes == [err |-> "none", status |-> 0]

(* --------------------------- PostgresRepository ------------------------ *)
\* the users table without the UNIQUE constraint on email
EmailUniqueViolationNever(us, email) == FALSE

\* email VARCHAR(255) UNIQUE: TRUE when the insert violates it
EmailUniqueViolation(us, email) ==
    \E r \in us : r.email = email

\* the users table without the CHECK constraint on role
RoleCheckViolationNever(role) == FALSE

\* CHECK (role IN ('author', 'reader')): TRUE when the insert violates it
RoleCheckViolation(role) == role \notin {Author, Reader}

\* AddNewUser: the error for the constraint the INSERT violates; the CHECK
\* constraints of a row are evaluated before the row reaches the unique index
AddNewUserError(us, email, role) ==
    IF RoleCheckViolation(role) THEN ErrorRepositoryBadRole
    ELSE IF EmailUniqueViolation(us, email) THEN ErrorRepositoryUserAlreadyExsist
    ELSE NoError

\* INSERT INTO users (email, password_hash, role, refresh_token,
\* refresh_token_expiry_time); the expiry is time.Now() + 7 days, written here
\* as the instant it is computed from
AddNewUser(us, id, email, password_hash, role, refreshToken, at) ==
    us \cup {[user_id |-> id, email |-> email, password_hash |-> password_hash,
              role |-> role, refresh_token |-> refreshToken,
              refresh_token_expiry_time |-> at]}

\* SELECT * FROM users WHERE email = $1  (empty: sql.ErrNoRows)
GetUserByEmail(us, email) ==
    {r \in us : r.email = email}

\* UPDATE users SET refresh_token = $2 that writes nothing
UpdateRefreshTokenLost(us, id, refreshToken) == us

\* the UPDATE writing the role column as well
UpdateRefreshTokenResetsRole(us, id, refreshToken) ==
    {IF r.user_id = id THEN [r EXCEPT !.refresh_token = refreshToken, !.role = Reader]
                       ELSE r : r \in us}

\* UPDATE users SET refresh_token = $2 WHERE user_id = $1
UpdateRefreshToken(us, id, refreshToken) ==
    {IF r.user_id = id THEN [r EXCEPT !.refresh_token = refreshToken] ELSE r : r \in us}

\* SELECT refresh_token FROM users WHERE user_id = $1  (empty: sql.ErrNoRows)
GetRefreshToken(us, id) ==
    {r.refresh_token : r \in {x \in us : x.user_id = id}}

\* SELECT * FROM posts WHERE idempotency_key = $1  (empty: sql.ErrNoRows)
GetPostByIdempotencyKey(ps, idempotencyKey) ==
    {r \in ps : r.idempotency_key = idempotencyKey}

\* SELECT * FROM posts WHERE post_id = $1  (empty: sql.ErrNoRows)
GetPostById(ps, id) ==
    {r \in ps : r.post_id = id}

\* the posts table without the UNIQUE constraint on idempotency_key
UniqueViolationNever(ps, idempotencyKey) == FALSE

\* idempotency_key VARCHAR(255) UNIQUE: TRUE when the insert violates it
UniqueViolation(ps, idempotencyKey) ==
    \E r \in ps : r.idempotency_key = idempotencyKey

\* INSERT INTO posts (author_id, idempotency_key, title, content);
\* post_id, status, created_at and updated_at take their column defaults.
\* The two timestamps are counted from the insert of the row: both defaults
\* are CURRENT_TIMESTAMP of the one statement, written 0; a later statement
\* that sets a timestamp would write a greater value
CreatePost(ps, id, authorId, idempotencyKey, title, content) ==
    ps \cup {[post_id |-> id, author_id |-> authorId,
              idempotency_key |-> idempotencyKey,
              title |-> title, content |-> content, status |-> Draft,
              created_at |-> 0, updated_at |-> 0]}

\* status VARCHAR(20) CHECK (status IN ('draft', 'published')): TRUE when a
\* written status violates it
StatusCheckViolation(status) == status \notin {Draft, Published}

\* the UPDATE without its WHERE clause
UpdatePostEveryRow(ps, id, title, content, status) ==
    {[r EXCEPT !.title = title, !.content = content, !.status = status] : r \in ps}

\* UPDATE posts SET title = $2, content = $3, status = $4 WHERE post_id = $1
\* (created_at and updated_at are not in the SET list and no trigger is
\* defined on the table)
UpdatePost(ps, id, title, content, status) ==
    {IF r.post_id = id
        THEN [r EXCEPT !.title = title, !.content = content, !.status = status]
        ELSE r : r \in ps}

\* INSERT INTO images (image_id, post_id, image_url)
CreateImage(imgs, imageId, postId, imageUrl) ==
    imgs \cup {[image_id |-> imageId, post_id |-> postId, image_url |-> imageUrl]}

\* the statement returning a row whatever the table holds
DeletedImageRowsAlways(imgs, imageId) ==
    {[image_id |-> imageId]}

\* DELETE FROM images WHERE image_id = $1 RETURNING *: the rows it returns
\* (empty: sql.ErrNoRows)
DeletedImageRows(imgs, imageId) ==
    {r \in imgs : r.image_id = imageId}

\* the statement returning its rows without deleting them
DeleteImageRowsKept(imgs, imageId) == imgs

\* DELETE FROM images WHERE image_id = $1: the table afterwards
DeleteImageRows(imgs, imageId) ==
    {r \in imgs : r.image_id # imageId}

\* SELECT * FROM images WHERE post_id = $1
GetPostImages(imgs, postId) ==
    {r \in imgs : r.post_id = postId}

\* a posts row LEFT JOINed with the users row of its author (p.*, u.*)
PostUserDB(us, r) ==
    [post_id |-> r.post_id, author_id |-> r.author_id, title |-> r.title,
     content |-> r.content, status |-> r.status,
     email |-> IF \E u \in us : u.user_id = r.author_id
                  THEN (CHOOSE u \in us : u.user_id = r.author_id).email
                  ELSE "NULL"]

\* the listing of the readers without its WHERE clause
GetPublishedPostsAll(ps, us) ==
    {PostUserDB(us, r) : r \in ps}

\* SELECT p.*, u.* FROM posts p LEFT JOIN users u ON u.user_id = p.author_id
\* WHERE p.status = 'published'
GetPublishedPosts(ps, us) ==
    {PostUserDB(us, r) : r \in {x \in ps : x.status = Published}}

\* SELECT p.*, u.* FROM posts p LEFT JOIN users u ON u.user_id = p.author_id
\* WHERE p.author_id = $1
GetUserPosts(ps, us, userId) ==
    {PostUserDB(us, r) : r \in {x \in ps : x.author_id = userId}}

(* ----------------------------- MinIORepository ------------------------- *)
BucketName == "images"

\* uuid.UUID.String(): the object name of an image id
UUIDString(imageId) == <<"uuid", imageId>>

\* PutObject: the bucket after a successful upload
PutObject(objs, objectName) == objs \cup {objectName}

\* PutImage: the link it returns, fmt.Sprintf("/%s/%s", info.Bucket, objectName)
ImageLink(objectName) == <<"/", BucketName, "/", objectName>>

\* RemoveObject that removes nothing
RemoveObjectNothing(objs, objectName) == objs

\* RemoveObject: the bucket after a successful removal
RemoveObject(objs, objectName) == objs \ {objectName}

(* ------------------------------ handlers ------------------------------- *)
\* CreatePostHandler without the case of the used idempotency key
CreatePostHandlerNoConflict(err) ==
    IF err = NoError THEN 201 ELSE 502

\* ReaderController.CreatePostHandler: status answered for a service error
CreatePostHandler(err) ==
    IF err = NoError THEN 201
    ELSE IF err = ErrorKeyIdempotencyAlreadyUsed THEN 409
    ELSE 502

\* AuthController.RegisterHandler: status answered for a service error
RegisterHandler(err) ==
    IF err = NoError THEN 200
    ELSE IF err = ErrorRepositoryUserAlreadyExsist THEN 403
    ELSE 502

\* AuthController.LoginHandler: status answered for a service error
LoginHandler(err) ==
    IF err = NoError THEN 200
    ELSE IF err = ErrorRepositoryEmailNotExsist THEN 403
    ELSE 502

\* AuthController.LoginHandler: body written for a service error
\* (fmt.Fprintf(w, "%s\n", err.Error()) is written as the pair of its parts)
LoginBody(err) ==
    IF err = NoError THEN <<"json", "LoginUserResponse">>
    ELSE IF err = ErrorRepositoryEmailNotExsist THEN <<"Email or password incorrect", "\n">>
    ELSE <<err, "\n">>

\* AuthController.RegisterHandler: body written for a service error
RegisterBody(err) ==
    IF err = NoError THEN <<"json", "RegistrateUserResponse">>
    ELSE <<err, "\n">>

\* AuthController.RefreshHandler: body written for a service error
RefreshBody(err) ==
    IF err = NoError THEN <<"json", "RefreshResponse">>
    ELSE IF err = ErrorInvalidToken THEN <<"Refresh token expired or incorrect", "\n">>
    ELSE <<err, "\n">>

\* RefreshHandler without the case of the invalid token
RefreshHandlerNoInvalidToken(err) ==
    IF err = NoError THEN 200 ELSE 502

\* AuthController.RefreshHandler: status answered for a service error
RefreshHandler(err) ==
    IF err = NoError THEN 200
    ELSE IF err = ErrorInvalidToken THEN 400
    ELSE 502

\* the poster handlers without the case of sql.ErrNoRows
PosterHandlerNoRowsDefault(err) ==
    IF err = NoError THEN 201
    ELSE IF err = ErrorServiceNoAccess THEN 403
    ELSE IF err = ErrorServiceIncorrectData THEN 400
    ELSE 502

\* PosterController handlers: status answered for a service error
PosterHandler(err) ==
    IF err = NoError THEN 201
    ELSE IF err = ErrorServiceNoAccess THEN 403
    ELSE IF err = ErrorServiceIncorrectData THEN 400
    ELSE IF err = ErrNoRows THEN 404
    ELSE 502

Finish(p, err, status) ==
    /\ pc' = [pc EXCEPT ![p] = "done"]
    /\ res' = [res EXCEPT ![p] = [err |-> err, status |-> status]]

\* an idle worker accepts request r: the handler decodes it and calls the
\* service
Accept(p, r) ==
    /\ pc[p] = "idle"
    /\ calls < MaxCalls
    /\ calls' = calls + 1
    /\ req' = [req EXCEPT ![p] = r]

(* ------------------------------ AuthService ---------------------------- *)
\* the one-way password hash
Hash(password) == <<"hash", password>>

\* Token Issuer, Issue: the refresh token with serial n signed for identity id;
\* two tokens issued at different instants differ
Issue(id, n) == [sub |-> id, n |-> n]

\* Token Issuer, Validate: the signature is the issuer's and the expiry has
\* not passed
Validate(token) == token \in issued /\ token.n > expired

\* a string that is no token signed by the issuer
Forged == [sub |-> 0, n |-> 0]

\* refresh tokens a client can present: every token signed so far, and a
\* forged one
Presentable == issued \cup {Forged}

\* RegisterHandler calls RegistrateUser: the single store call AddNewUser,
\* with the refresh token issued for the new identity
RegistrateUser(p) ==
    /\ \E e \in Emails, pw \in Passwords, role \in ReqRoles :
          /\ Accept(p, [op |-> "RegistrateUser", email |-> e, password |-> pw,
                        role |-> role])
          /\ LET err == AddNewUserError(users, e, role)
                 id  == Cardinality(users) + 1
                 n   == Cardinality(issued) + 1
             IN  IF err # NoError
                    THEN /\ Finish(p, err, RegisterHandler(err))
                         /\ loc' = [loc EXCEPT ![p] = NoLoc]
                         /\ UNCHANGED <<users, issued>>
                    ELSE /\ users' = AddNewUser(users, id, e, Hash(pw), role,
                                                Issue(id, n), n)
                         /\ issued' = issued \cup {Issue(id, n)}
                         /\ loc' = [loc EXCEPT ![p] = [userId |-> id,
                                                       refreshToken |-> Issue(id, n)]]
                         /\ Finish(p, NoError, RegisterHandler(NoError))
    /\ UNCHANGED <<expired, posts, images, objects, postSeq, imageSeq>>

\* LoginUser telling a wrong password apart from an unknown email
LoginUserErrorWrongPassword(rows, password) ==
    IF rows = {} THEN ErrorRepositoryEmailNotExsist
    ELSE IF \E r \in rows : r.password_hash # Hash(password)
       THEN ErrorServiceIncorrectData
    ELSE NoError

\* LoginUser: the error for the rows GetUserByEmail found and the password
\* of the request; a hash that does not match fails as an unknown email does
LoginUserError(rows, password) ==
    IF rows = {} THEN ErrorRepositoryEmailNotExsist
    ELSE IF \E r \in rows : r.password_hash # Hash(password)
       THEN ErrorRepositoryEmailNotExsist
    ELSE NoError

\* LoginHandler calls LoginUser; LoginUser, first store call (GetUserByEmail),
\* the password check, and the issue of the new token pair
LoginUserGet(p) ==
    /\ \E e \in Emails, pw \in Passwords :
          /\ Accept(p, [op |-> "LoginUser", email |-> e, password |-> pw])
          /\ LET rows == GetUserByEmail(users, e)
                 n    == Cardinality(issued) + 1
             IN  IF LoginUserError(rows, pw) # NoError
                    THEN /\ Finish(p, LoginUserError(rows, pw),
                                   LoginHandler(LoginUserError(rows, pw)))
                         /\ loc' = [loc EXCEPT ![p] = NoLoc]
                         /\ UNCHANGED issued
                    ELSE /\ LET id == (CHOOSE r \in rows : TRUE).user_id
                            IN  /\ issued' = issued \cup {Issue(id, n)}
                                /\ loc' = [loc EXCEPT ![p] = [userId |-> id,
                                                 refreshToken |-> Issue(id, n)]]
                         /\ pc' = [pc EXCEPT ![p] = "LoginUser_update"]
                         /\ res' = [res EXCEPT ![p] = NoRes]
    /\ UNCHANGED <<users, expired, posts, images, objects, postSeq, imageSeq>>

\* LoginUser, second store call: UpdateRefreshToken overwrites the stored
\* refresh token
LoginUserUpdate(p) ==
    /\ pc[p] = "LoginUser_update"
    /\ users' = UpdateRefreshToken(users, loc[p].userId, loc[p].refreshToken)
    /\ Finish(p, NoError, LoginHandler(NoError))
    /\ UNCHANGED <<issued, expired, posts, images, objects, postSeq, imageSeq,
                   req, loc, calls>>

\* LoginUser, second store call failed by the store: the error is returned
\* as it is and the stored refresh token stays
LoginUserUpdateFails(p) ==
    /\ pc[p] = "LoginUser_update"
    /\ Finish(p, StoreFailure, LoginHandler(StoreFailure))
    /\ UNCHANGED <<users, issued, expired, posts, images, objects, postSeq,
                   imageSeq, req, loc, calls>>

\* RefreshHandler calls RefreshToken; RefreshToken validates the token and
\* compares it with the stored one (GetRefreshToken); on success it returns a
\* new access token and either leaves the stored refresh token or goes on to
\* rotate it
RefreshTokenGet(p) ==
    /\ \E t \in Presentable :
          /\ Accept(p, [op |-> "RefreshToken", token |-> t])
          /\ IF ~ Validate(t) \/ GetRefreshToken(users, t.sub) # {t}
                THEN /\ Finish(p, ErrorInvalidToken, RefreshHandler(ErrorInvalidToken))
                     /\ loc' = [loc EXCEPT ![p] = NoLoc]
                     /\ UNCHANGED issued
                ELSE \/ /\ Finish(p, NoError, RefreshHandler(NoError))
                        /\ loc' = [loc EXCEPT ![p] = NoLoc]
                        /\ UNCHANGED issued
                     \/ /\ LET n == Cardinality(issued) + 1
                           IN  /\ issued' = issued \cup {Issue(t.sub, n)}
                               /\ loc' = [loc EXCEPT ![p] = [userId |-> t.sub,
                                                refreshToken |-> Issue(t.sub, n)]]
                        /\ pc' = [pc EXCEPT ![p] = "RefreshToken_update"]
                        /\ res' = [res EXCEPT ![p] = NoRes]
    /\ UNCHANGED <<users, expired, posts, images, objects, postSeq, imageSeq>>

\* RefreshToken, rotation: UpdateRefreshToken overwrites the stored refresh
\* token
RefreshTokenUpdate(p) ==
    /\ pc[p] = "RefreshToken_update"
    /\ users' = UpdateRefreshToken(users, loc[p].userId, loc[p].refreshToken)
    /\ Finish(p, NoError, RefreshHandler(NoError))
    /\ UNCHANGED <<issued, expired, posts, images, objects, postSeq, imageSeq,
                   req, loc, calls>>

\* RefreshToken, rotation failed by the store: the error is returned as it
\* is and the stored refresh token stays
RefreshTokenUpdateFails(p) ==
    /\ pc[p] = "RefreshToken_update"
    /\ Finish(p, StoreFailure, RefreshHandler(StoreFailure))
    /\ UNCHANGED <<users, issued, expired, posts, images, objects, postSeq,
                   imageSeq, req, loc, calls>>

\* time passes the expiry of a signed refresh token
Expire ==
    /\ expired < Cardinality(issued)
    /\ expired' = expired + 1
    /\ UNCHANGED <<users, issued, posts, images, objects, postSeq, imageSeq,
                   pc, req, loc, res, calls>>

(* ---------------------------- ReaderService ---------------------------- *)
\* CreatePostHandler calls NewPost; NewPost, first store call: lookup by
\* idempotency key
NewPostCall(p, u) ==
    /\ \E k \in Keys, b \in Bodies :
          /\ Accept(p, [op |-> "NewPost", userId |-> u, key |-> k,
                        title |-> b.title, content |-> b.content])
          /\ IF GetPostByIdempotencyKey(posts, k) # {}
                THEN Finish(p, ErrorKeyIdempotencyAlreadyUsed,
                            CreatePostHandler(ErrorKeyIdempotencyAlreadyUsed))
                ELSE /\ pc' = [pc EXCEPT ![p] = "NewPost_insert"]
                     /\ res' = [res EXCEPT ![p] = NoRes]
    /\ loc' = [loc EXCEPT ![p] = NoLoc]
    /\ UNCHANGED <<users, issued, expired, posts, images, objects, postSeq, imageSeq>>

\* CreatePostHandler serving the resolved user of the request context
NewPostLookup(p) == \E u \in Authors : NewPostCall(p, u)

\* NewPost, second store call: insert; the error of the repository is
\* returned as it is
NewPostInsert(p) ==
    /\ pc[p] = "NewPost_insert"
    /\ IF UniqueViolation(posts, req[p].key)
          THEN /\ Finish(p, ErrorRepositoryUserAlreadyExsist,
                         CreatePostHandler(ErrorRepositoryUserAlreadyExsist))
               /\ UNCHANGED <<users, issued, expired, posts, postSeq, loc>>
          ELSE /\ posts' = CreatePost(posts, postSeq + 1, req[p].userId,
                                      req[p].key, req[p].title, req[p].content)
               /\ postSeq' = postSeq + 1
               /\ loc' = [loc EXCEPT ![p] = [postId |-> postSeq + 1]]
               /\ Finish(p, NoError, CreatePostHandler(NoError))
    /\ UNCHANGED <<users, issued, expired, images, objects, imageSeq, req, calls>>

\* the resolved users a request context can carry: the identity and the
\* role of a User row; "admin" stands for any role outside the enum
CtxUsers == [user_id : Authors, role : ReqRoles]

\* ReaderService.proccessPostsToResponse: the response rows, each listed post
\* with the images GetPostImages finds for it
proccessPostsToResponse(listing, imgs) ==
    {[post_id |-> x.post_id,
      author |-> [user_id |-> x.author_id, email |-> x.email],
      title |-> x.title, content |-> x.content, status |-> x.status,
      images |-> {[image_id |-> i.image_id, image_url |-> i.image_url] :
                     i \in GetPostImages(imgs, x.post_id)}] : x \in listing}

\* ViewSelectionHandler with the resolved user ctx: the switch on the role,
\* then authorView or readerView up to the listing query of the service
ViewSelectionCall(p, ctx) ==
    /\ Accept(p, [op |-> "ViewSelection", userId |-> ctx.user_id, role |-> ctx.role])
    /\ IF ctx.role = Author
          THEN /\ loc' = [loc EXCEPT ![p] = [listing |-> GetUserPosts(posts, users, ctx.user_id)]]
               /\ pc' = [pc EXCEPT ![p] = "ViewSelection_images"]
               /\ res' = [res EXCEPT ![p] = NoRes]
          ELSE IF ctx.role = Reader
          THEN /\ loc' = [loc EXCEPT ![p] = [listing |-> GetPublishedPosts(posts, users)]]
               /\ pc' = [pc EXCEPT ![p] = "ViewSelection_images"]
               /\ res' = [res EXCEPT ![p] = NoRes]
          ELSE /\ Finish(p, ErrorHttpIncorrectUser, 403)
               /\ loc' = [loc EXCEPT ![p] = NoLoc]
    /\ UNCHANGED <<users, issued, expired, posts, images, objects, postSeq, imageSeq>>

\* ViewSelectionHandler serving the resolved user of the request context
ViewSelectionHandler(p) == \E ctx \in CtxUsers : ViewSelectionCall(p, ctx)

\* GetPublishedPosts / GetAuthorPosts, the image queries of
\* proccessPostsToResponse; the handler answers 200 with the response rows
ViewSelectionImages(p) ==
    /\ pc[p] = "ViewSelection_images"
    /\ loc' = [loc EXCEPT ![p] = [listing |-> loc[p].listing,
                  response |-> proccessPostsToResponse(loc[p].listing, images)]]
    /\ Finish(p, NoError, 200)
    /\ UNCHANGED <<users, issued, expired, posts, images, objects, postSeq,
                   imageSeq, req, calls>>

(* ---------------------------- PosterService ---------------------------- *)
\* getPostAuthor without the comparison of the author with the requester
getPostAuthorAnyUser(rows, userId) ==
    IF rows = {} THEN ErrNoRows ELSE NoError

\* PosterService.getPostAuthor: the error it returns for the rows GetPostById
\* found
getPostAuthor(rows, userId) ==
    IF rows = {} THEN ErrNoRows
    ELSE IF (CHOOSE r \in rows : TRUE).author_id # userId THEN ErrorServiceNoAccess
    ELSE NoError

\* EditPostHandler calls EditPost; EditPost, first store call: getPostAuthor
\* reads the row
EditPostCall(p, u) ==
    /\ \E id \in PostIds, b \in Bodies :
          /\ Accept(p, [op |-> "EditPost", userId |-> u, postId |-> id,
                        title |-> b.title, content |-> b.content])
          /\ LET rows == GetPostById(posts, id)
                 err  == getPostAuthor(rows, u)
             IN  IF err # NoError
                    THEN /\ Finish(p, err, PosterHandler(err))
                         /\ loc' = [loc EXCEPT ![p] = NoLoc]
                    ELSE /\ loc' = [loc EXCEPT ![p] = [postDB |-> CHOOSE r \in rows : TRUE]]
                         /\ pc' = [pc EXCEPT ![p] = "EditPost_update"]
                         /\ res' = [res EXCEPT ![p] = NoRes]
    /\ UNCHANGED <<users, issued, expired, posts, images, objects, postSeq, imageSeq>>

\* EditPostHandler serving the resolved user of the request context
EditPostGet(p) == \E u \in Authors : EditPostCall(p, u)

\* EditPost, second store call: writes the request's title and content and
\* the status read by the first call
EditPostUpdate(p) ==
    /\ pc[p] = "EditPost_update"
    /\ posts' = UpdatePost(posts, req[p].postId, req[p].title, req[p].content,
                           loc[p].postDB.status)
    /\ Finish(p, NoError, PosterHandler(NoError))
    /\ UNCHANGED <<users, issued, expired, images, objects, postSeq, imageSeq, req, loc, calls>>

\* PublishPost without the check of the requested status
IncorrectStatusNever(status) == FALSE

\* the check of the requested status in PublishPost
IncorrectStatus(status) == status # Published

\* PublishHandler calls PublishPost; PublishPost, first store call
\* (getPostAuthor), then the check of the requested status
PublishPostCall(p, u) ==
    /\ \E id \in PostIds, s \in ReqStatuses :
          /\ Accept(p, [op |-> "PublishPost", userId |-> u, postId |-> id, status |-> s])
          /\ LET rows == GetPostById(posts, id)
                 err  == getPostAuthor(rows, u)
             IN  IF err # NoError
                    THEN /\ Finish(p, err, PosterHandler(err))
                         /\ loc' = [loc EXCEPT ![p] = NoLoc]
                    ELSE IF IncorrectStatus(s)
                    THEN /\ Finish(p, ErrorServiceIncorrectData,
                                   PosterHandler(ErrorServiceIncorrectData))
                         /\ loc' = [loc EXCEPT ![p] = NoLoc]
                    ELSE /\ loc' = [loc EXCEPT ![p] = [postDB |-> CHOOSE r \in rows : TRUE]]
                         /\ pc' = [pc EXCEPT ![p] = "PublishPost_update"]
                         /\ res' = [res EXCEPT ![p] = NoRes]
    /\ UNCHANGED <<users, issued, expired, posts, images, objects, postSeq, imageSeq>>

\* PublishHandler serving the resolved user of the request context
PublishPostGet(p) == \E u \in Authors : PublishPostCall(p, u)

\* PublishPost, second store call: writes the title and content read by the
\* first call and the requested status
PublishPostUpdate(p) ==
    /\ pc[p] = "PublishPost_update"
    /\ IF StatusCheckViolation(req[p].status)
          THEN /\ Finish(p, StoreFailure, PosterHandler(StoreFailure))
               /\ UNCHANGED posts
          ELSE /\ posts' = UpdatePost(posts, req[p].postId, loc[p].postDB.title,
                                      loc[p].postDB.content, req[p].status)
               /\ Finish(p, NoError, PosterHandler(NoError))
    /\ UNCHANGED <<users, issued, expired, images, objects, postSeq, imageSeq, req, loc, calls>>

\* AddImageHandler calls AddImage; AddImage, first store call
\* (getPostAuthor), then uuid.NewUUID
AddImageCall(p, u) ==
    /\ imageSeq < MaxImages
    /\ \E id \in PostIds :
          /\ Accept(p, [op |-> "AddImage", userId |-> u, postId |-> id])
          /\ LET err == getPostAuthor(GetPostById(posts, id), u)
             IN  IF err # NoError
                    THEN /\ Finish(p, err, PosterHandler(err))
                         /\ loc' = [loc EXCEPT ![p] = NoLoc]
                         /\ UNCHANGED imageSeq
                    ELSE /\ imageSeq' = imageSeq + 1
                         /\ loc' = [loc EXCEPT ![p] = [imageId |-> imageSeq + 1]]
                         /\ pc' = [pc EXCEPT ![p] = "AddImage_put"]
                         /\ res' = [res EXCEPT ![p] = NoRes]
    /\ UNCHANGED <<users, issued, expired, posts, images, objects, postSeq>>

\* AddImageHandler serving the resolved user of the request context
AddImageGet(p) == \E u \in Authors : AddImageCall(p, u)

\* AddImage going on to the insert although the upload failed
AddImagePutUnchecked(p) ==
    /\ pc[p] = "AddImage_put"
    /\ \/ objects' = PutObject(objects, UUIDString(loc[p].imageId))
       \/ UNCHANGED objects
    /\ loc' = [loc EXCEPT ![p] = [imageId |-> loc[p].imageId,
                                  link |-> ImageLink(UUIDString(loc[p].imageId))]]
    /\ pc' = [pc EXCEPT ![p] = "AddImage_insert"]
    /\ UNCHANGED <<users, issued, expired, posts, images, postSeq, imageSeq, req, calls, res>>

\* AddImage, second store call: upload the blob under the image id; the
\* object store may fail the request
AddImagePut(p) ==
    /\ pc[p] = "AddImage_put"
    /\ \/ /\ objects' = PutObject(objects, UUIDString(loc[p].imageId))
          /\ loc' = [loc EXCEPT ![p] = [imageId |-> loc[p].imageId,
                                        link |-> ImageLink(UUIDString(loc[p].imageId))]]
          /\ pc' = [pc EXCEPT ![p] = "AddImage_insert"]
          /\ UNCHANGED res
       \/ /\ Finish(p, StoreFailure, PosterHandler(StoreFailure))
          /\ UNCHANGED <<users, issued, expired, objects, loc>>
    /\ UNCHANGED <<users, issued, expired, posts, images, postSeq, imageSeq, req, calls>>

\* AddImage deleting the just-uploaded object when the insert fails
AddImageInsertCompensating(p) ==
    /\ pc[p] = "AddImage_insert"
    /\ \/ /\ images' = CreateImage(images, loc[p].imageId, req[p].postId, loc[p].link)
          /\ Finish(p, NoError, PosterHandler(NoError))
          /\ UNCHANGED objects
       \/ /\ Finish(p, StoreFailure, PosterHandler(StoreFailure))
          /\ objects' = RemoveObject(objects, UUIDString(loc[p].imageId))
          /\ UNCHANGED images
    /\ UNCHANGED <<users, issued, expired, posts, postSeq, imageSeq, req, loc, calls>>

\* AddImage, third store call: insert the Image row; the store may fail the
\* statement
AddImageInsert(p) ==
    /\ pc[p] = "AddImage_insert"
    /\ \/ /\ images' = CreateImage(images, loc[p].imageId, req[p].postId, loc[p].link)
          /\ Finish(p, NoError, PosterHandler(NoError))
       \/ /\ Finish(p, StoreFailure, PosterHandler(StoreFailure))
          /\ UNCHANGED images
    /\ UNCHANGED <<users, issued, expired, posts, objects, postSeq, imageSeq, req, loc, calls>>

\* image ids a request path can name: every id uuid.NewUUID can have returned
ImageIds == 1..MaxImages

\* DeleteImageHandler calls DeleteImage; DeleteImage, first store call:
\* getPostAuthor on the post of the path
DeleteImageCall(p, u) ==
    /\ \E id \in PostIds, im \in ImageIds :
          /\ Accept(p, [op |-> "DeleteImage", userId |-> u, postId |-> id,
                        imageId |-> im])
          /\ LET err == getPostAuthor(GetPostById(posts, id), u)
             IN  IF err # NoError
                    THEN Finish(p, err, PosterHandler(err))
                    ELSE /\ pc' = [pc EXCEPT ![p] = "DeleteImage_row"]
                         /\ res' = [res EXCEPT ![p] = NoRes]
    /\ loc' = [loc EXCEPT ![p] = NoLoc]
    /\ UNCHANGED <<users, issued, expired, posts, images, objects, postSeq, imageSeq>>

\* DeleteImageHandler serving the resolved user of the request context
DeleteImageGet(p) == \E u \in Authors : DeleteImageCall(p, u)

\* DeleteImage, second store call: delete the Image row by image id; the
\* store may fail the statement
DeleteImageRow(p) ==
    /\ pc[p] = "DeleteImage_row"
    /\ \/ /\ DeletedImageRows(images, req[p].imageId) = {}
          /\ Finish(p, ErrNoRows, PosterHandler(ErrNoRows))
          /\ UNCHANGED images
       \/ /\ DeletedImageRows(images, req[p].imageId) # {}
          /\ images' = DeleteImageRows(images, req[p].imageId)
          /\ pc' = [pc EXCEPT ![p] = "DeleteImage_blob"]
          /\ UNCHANGED res
       \/ /\ Finish(p, StoreFailure, PosterHandler(StoreFailure))
          /\ UNCHANGED images
    /\ UNCHANGED <<users, issued, expired, posts, objects, postSeq, imageSeq, req, loc, calls>>

\* DeleteImage answering success although the blob delete failed
DeleteImageBlobSwallowing(p) ==
    /\ pc[p] = "DeleteImage_blob"
    /\ \/ /\ objects' = RemoveObject(objects, UUIDString(req[p].imageId))
          /\ Finish(p, NoError, PosterHandler(NoError))
       \/ /\ Finish(p, NoError, PosterHandler(NoError))
          /\ UNCHANGED objects
    /\ UNCHANGED <<users, issued, expired, posts, images, postSeq, imageSeq, req, loc, calls>>

\* DeleteImage, third store call: remove the blob named by the image id; the
\* object store may fail the request
DeleteImageBlob(p) ==
    /\ pc[p] = "DeleteImage_blob"
    /\ \/ /\ objects' = RemoveObject(objects, UUIDString(req[p].imageId))
          /\ Finish(p, NoError, PosterHandler(NoError))
       \/ /\ Finish(p, StoreFailure, PosterHandler(StoreFailure))
          /\ UNCHANGED objects
    /\ UNCHANGED <<users, issued, expired, posts, images, postSeq, imageSeq, req, loc, calls>>

\* the process dies while a worker is between two store calls: the request
\* is never answered and nothing is undone
Crashed == "crashed"
Crash(p) ==
    /\ pc[p] \in {"AddImage_put", "AddImage_insert", "DeleteImage_row", "DeleteImage_blob"}
    /\ Finish(p, Crashed, 0)
    /\ UNCHANGED <<users, issued, expired, posts, images, objects, postSeq, imageSeq, req, loc, calls>>

\* the response has been written; the worker is free for the next request
Return(p) ==
    /\ pc[p] = "done"
    /\ pc' = [pc EXCEPT ![p] = "idle"]
    /\ req' = [req EXCEPT ![p] = NoReq]
    /\ loc' = [loc EXCEPT ![p] = NoLoc]
    /\ res' = [res EXCEPT ![p] = NoRes]
    /\ UNCHANGED <<users, issued, expired, posts, images, objects, postSeq, imageSeq, calls>>

(* --------------------- handlers: the request context ------------------- *)
\* the request context carries no resolved user
NoUser == [user_id |-> 0, role |-> "none"]

\* the handlers that read the resolved user of the request context, by the
\* service method they call
IdentityOps == {"EditPost", "PublishPost", "AddImage", "DeleteImage",
                "NewPost", "ViewSelection"}

\* the handlers going on without a resolved user
CtxUserMissingNever(ctx) == FALSE

\* user, ok := ctx.Value(types.CtxUser).(*dto.UserDB); !ok
CtxUserMissing(ctx) == ctx = NoUser

\* a handler is invoked with the request context ctx: without a resolved
\* user it answers 403 "incorrect user"; otherwise it decodes the request and
\* calls its service method with the identity of the user
HandlerEntry(p) ==
    \E ctx \in CtxUsers \cup {NoUser} :
        IF CtxUserMissing(ctx)
        THEN /\ \E op \in IdentityOps :
                    Accept(p, [op |-> op, userId |-> ctx.user_id])
             /\ Finish(p, ErrorHttpIncorrectUser, 403)
             /\ loc' = [loc EXCEPT ![p] = NoLoc]
             /\ UNCHANGED <<users, issued, expired, posts, images, objects,
                            postSeq, imageSeq>>
        ELSE \/ EditPostCall(p, ctx.user_id)
             \/ PublishPostCall(p, ctx.user_id)
             \/ AddImageCall(p, ctx.user_id)
             \/ DeleteImageCall(p, ctx.user_id)
             \/ NewPostCall(p, ctx.user_id)
             \/ ViewSelectionCall(p, ctx)

(* -------------------------- Authorization Gate ------------------------- *)
\* SELECT * FROM users WHERE user_id = $1  (empty: sql.ErrNoRows)
GetUserById(us, id) ==
    {r \in us : r.user_id = id}

\* values of the Authorization header: absent, not of the form
\* "Bearer <token>", or an access token; an access token claims an identity
\* (sub) and either passes the issuer's validation (signature and expiry) or
\* does not; identity 3 is the identity of no User row
NoHeader == [kind |-> "no header", sub |-> 0, valid |-> FALSE]
Malformed == [kind |-> "malformed", sub |-> 0, valid |-> FALSE]
AccessTokens == [kind : {"Bearer"}, sub : 1..3, valid : BOOLEAN]
Bearers == {NoHeader, Malformed} \cup AccessTokens

\* AuthorizeUser: the error of resolving a bearer token to a User row
AuthorizeUser(us, bearer) ==
    IF bearer \in {NoHeader, Malformed} THEN ErrorInvalidToken
    ELSE IF ~ bearer.valid THEN ErrorInvalidToken
    ELSE IF GetUserById(us, bearer.sub) = {} THEN ErrNoRows
    ELSE NoError

\* the User row AuthorizeUser resolves a bearer token to
ResolvedUser(us, bearer) == CHOOSE r \in GetUserById(us, bearer.sub) : TRUE

\* the role restriction skipped: every resolved identity passes
AuthorOnlyMiddlewareOpen(user) == NoError

\* AuthorOnlyMiddleware: the role restriction on a resolved identity
AuthorOnlyMiddleware(user) ==
    IF user.role # Author THEN ErrorServiceNoAccess ELSE NoError

\* AuthMiddleware: status of the short-circuit of identity resolution, 0 when
\* the wrapped handler is invoked
AuthMiddleware(us, bearer) ==
    IF AuthorizeUser(us, bearer) # NoError THEN 401 ELSE 0

\* a request to a /post/ route: AuthMiddleware, then AuthorOnlyMiddleware,
\* then the handler of the poster router with the resolved user
PostRoute(p) ==
    \E bearer \in Bearers :
        IF AuthMiddleware(users, bearer) # 0
        THEN /\ Accept(p, [op |-> "PostRoute", bearer |-> bearer])
             /\ Finish(p, AuthorizeUser(users, bearer), AuthMiddleware(users, bearer))
             /\ loc' = [loc EXCEPT ![p] = NoLoc]
             /\ UNCHANGED <<users, issued, expired, posts, images, objects,
                            postSeq, imageSeq>>
        ELSE IF AuthorOnlyMiddleware(ResolvedUser(users, bearer)) # NoError
        THEN /\ Accept(p, [op |-> "PostRoute", bearer |-> bearer])
             /\ Finish(p, ErrorServiceNoAccess, 403)
             /\ loc' = [loc EXCEPT ![p] = NoLoc]
             /\ UNCHANGED <<users, issued, expired, posts, images, objects,
                            postSeq, imageSeq>>
        ELSE \/ EditPostCall(p, ResolvedUser(users, bearer).user_id)
             \/ PublishPostCall(p, ResolvedUser(users, bearer).user_id)
             \/ AddImageCall(p, ResolvedUser(users, bearer).user_id)
             \/ DeleteImageCall(p, ResolvedUser(users, bearer).user_id)

NoWorker ==
    /\ pc = [p \in Procs |-> "idle"]
    /\ req = [p \in Procs |-> NoReq]
    /\ loc = [p \in Procs |-> NoLoc]
    /\ res = [p \in Procs |-> NoRes]
    /\ calls = 0

\* the state after construction: empty tables, empty bucket
Init ==
    /\ users = {}
    /\ issued = {}
    /\ expired = 0
    /\ posts = {}
    /\ images = {}
    /\ objects = {}
    /\ postSeq = 0
    /\ imageSeq = 0
    /\ NoWorker

\* the two authors are registered (InitUsersReached: the registrations
\* reach these rows from Init)
InitUsers ==
    /\ users = AddNewUser(AddNewUser({}, 1, "a@x.com", Hash("pw1"), Author, Issue(1, 1), 1),
                          2, "b@x.com", Hash("pw2"), Author, Issue(2, 2), 2)
    /\ issued = {Issue(1, 1), Issue(2, 2)}
    /\ expired = 0

\* two posts exist, one of each author (InitPostsReached: the create
\* operations reach this state from Init)
InitPosts ==
    /\ InitUsers
    /\ posts = CreatePost(CreatePost({}, 1, 1, "k1", "T1", "C1"), 2, 2, "k2", "T2", "C2")
    /\ images = {}
    /\ objects = {}
    /\ postSeq = 2
    /\ imageSeq = 0
    /\ NoWorker

NextAuth ==
    \/ \E p \in Procs :
        \/ RegistrateUser(p)
        \/ LoginUserGet(p)
        \/ LoginUserUpdate(p)
        \/ LoginUserUpdateFails(p)
        \/ RefreshTokenGet(p)
        \/ RefreshTokenUpdate(p)
        \/ RefreshTokenUpdateFails(p)
        \/ Return(p)
    \/ Expire

NextSession ==
    \/ \E p \in Procs :
        \/ LoginUserGet(p)
        \/ LoginUserUpdate(p)
        \/ RefreshTokenGet(p)
        \/ RefreshTokenUpdate(p)
        \/ Return(p)
    \/ Expire

NextCreate ==
    \E p \in Procs :
        \/ NewPostLookup(p)
        \/ NewPostInsert(p)
        \/ Return(p)

NextPoster ==
    \E p \in Procs :
        \/ EditPostGet(p)
        \/ EditPostUpdate(p)
        \/ PublishPostGet(p)
        \/ PublishPostUpdate(p)
        \/ Return(p)

NextImage ==
    \E p \in Procs :
        \/ AddImageGet(p)
        \/ AddImagePut(p)
        \/ AddImageInsert(p)
        \/ DeleteImageGet(p)
        \/ DeleteImageRow(p)
        \/ DeleteImageBlob(p)
        \/ Crash(p)
        \/ Return(p)

NextRegister ==
    \E p \in Procs :
        \/ RegistrateUser(p)
        \/ Return(p)

NextLogin ==
    \E p \in Procs :
        \/ LoginUserGet(p)
        \/ LoginUserUpdate(p)
        \/ LoginUserUpdateFails(p)
        \/ Return(p)

NextView ==
    \E p \in Procs :
        \/ ViewSelectionHandler(p)
        \/ ViewSelectionImages(p)
        \/ PublishPostGet(p)
        \/ PublishPostUpdate(p)
        \/ Return(p)

Next == NextAuth \/ NextCreate \/ NextPoster \/ NextImage \/ NextView

\* registration, login and refresh from the empty store
NextAuthCalls == NextAuth /\ calls' <= MaxAuthCalls
SpecAuth == Init /\ [][NextAuthCalls]_vars
\* registration from the empty store
SpecRegister == Init /\ [][NextRegister]_vars
\* one author is registered, the other email is unknown (InitLoginReached:
\* a registration reaches these rows from Init)
InitLogin ==
    /\ users = AddNewUser({}, 1, "a@x.com", Hash("pw1"), Author, Issue(1, 1), 1)
    /\ issued = {Issue(1, 1)}
    /\ expired = 0
    /\ posts = {} /\ images = {} /\ objects = {}
    /\ postSeq = 0 /\ imageSeq = 0
    /\ NoWorker
\* login with a registered and with an unknown email
SpecLogin == InitLogin /\ [][NextLogin]_vars
\* the two authors are registered, the other tables and the bucket are empty
InitCreate == InitUsers /\ posts = {} /\ images = {} /\ objects = {}
              /\ postSeq = 0 /\ imageSeq = 0 /\ NoWorker
\* post creation by the registered authors
SpecCreate == InitCreate /\ [][NextCreate]_vars
\* login and refresh of the registered authors, with a store that serves
\* every statement
SpecSession == InitCreate /\ [][NextSession]_vars
\* edit and publish on existing posts
SpecPoster == InitPosts /\ [][NextPoster]_vars
\* image upload and removal on existing posts
SpecImage == InitPosts /\ [][NextImage]_vars
\* the four author-only operations on existing posts
NextAuthor == (NextPoster \/ NextImage) /\ calls' <= MaxAuthorCalls
SpecAuthor == InitPosts /\ [][NextAuthor]_vars
\* an author and a reader are registered and the author has created a post
InitGate ==
    /\ users = AddNewUser(AddNewUser({}, 1, "a@x.com", Hash("pw1"), Author, Issue(1, 1), 1),
                          2, "b@x.com", Hash("pw2"), Reader, Issue(2, 2), 2)
    /\ issued = {Issue(1, 1), Issue(2, 2)}
    /\ expired = 0
    /\ posts = CreatePost({}, 1, 1, "k1", "T1", "C1")
    /\ images = {}
    /\ objects = {}
    /\ postSeq = 1
    /\ imageSeq = 0
    /\ NoWorker
\* the /post/ routes behind the gate
NextGate ==
    /\ \E p \in Procs :
          \/ PostRoute(p)
          \/ EditPostUpdate(p)
          \/ PublishPostUpdate(p)
          \/ AddImagePut(p)
          \/ AddImageInsert(p)
          \/ DeleteImageRow(p)
          \/ DeleteImageBlob(p)
          \/ Return(p)
    /\ calls' <= MaxAuthorCalls
SpecGate == InitGate /\ [][NextGate]_vars
\* the post listing while posts are published
SpecView == InitPosts /\ [][NextView]_vars
\* the six handlers that need an identity, invoked with any request context
NextHandlers ==
    /\ \E p \in Procs :
          \/ HandlerEntry(p)
          \/ NewPostInsert(p)
          \/ EditPostUpdate(p)
          \/ PublishPostUpdate(p)
          \/ AddImagePut(p)
          \/ AddImageInsert(p)
          \/ DeleteImageRow(p)
          \/ DeleteImageBlob(p)
          \/ ViewSelectionImages(p)
          \/ Return(p)
    /\ calls' <= MaxHandlerCalls
SpecHandlers == InitGate /\ [][NextHandlers]_vars
\* every operation from the empty store
Spec == Init /\ [][Next]_vars

(* ------------------------------- claims -------------------------------- *)
\* the worker p accepts a request in this step
Accepted(p) == pc[p] = "idle" /\ pc'[p] # "idle"

\* the author of the post postId, 0 when there is no such post
AuthorOf(postId) ==
    IF GetPostById(posts, postId) = {} THEN 0
    ELSE (CHOOSE r \in GetPostById(posts, postId) : TRUE).author_id

\* InitUsers is a state the registrations reach from the empty store
InitUsersReached ==
    /\ users = AddNewUser(AddNewUser({}, 1, "a@x.com", Hash("pw1"), Author, Issue(1, 1), 1),
                          2, "b@x.com", Hash("pw2"), Author, Issue(2, 2), 2)
    /\ issued = {Issue(1, 1), Issue(2, 2)}
    /\ expired = 0
    /\ \A p \in Procs : pc[p] = "idle"

\* InitLogin is a state a registration reaches from the empty store
InitLoginReached ==
    /\ users = AddNewUser({}, 1, "a@x.com", Hash("pw1"), Author, Issue(1, 1), 1)
    /\ issued = {Issue(1, 1)}
    /\ \A p \in Procs : pc[p] = "idle"

\* InitPosts is a state the create operations reach from InitCreate
InitPostsReached ==
    /\ posts = CreatePost(CreatePost({}, 1, 1, "k1", "T1", "C1"), 2, 2, "k2", "T2", "C2")
    /\ \A p \in Procs : pc[p] = "idle"

\* C1: of the CreatePost calls with one idempotency key, run in any
\* interleaving, one creates the Post and every other one fails with
\* IdempotencyKeyAlreadyUsed, also the one whose insert hit the unique
\* constraint.
C1_OneWinnerOthersKeyUsed ==
    /\ \A p \in Procs :
          (pc[p] = "done" /\ req[p].op = "NewPost") =>
             res[p].err \in {NoError, ErrorKeyIdempotencyAlreadyUsed}
    /\ \A p, q \in Procs :
          (/\ p # q
           /\ pc[p] = "done" /\ req[p].op = "NewPost"
           /\ pc[q] = "done" /\ req[q].op = "NewPost"
           /\ req[p].key = req[q].key) =>
             ~ (res[p].err = NoError /\ res[q].err = NoError)

\* C2: no two Post rows have the same idempotency key, whoever the authors
\* are.
C2_KeyGloballyUnique ==
    \A r1, r2 \in posts :
        r1.idempotency_key = r2.idempotency_key => r1 = r2

\* C2 witness: a create by another author lost the race for a key that a
\* first author's row now holds
C2_Witness ==
    \E p \in Procs, r \in posts :
        /\ pc[p] = "done" /\ req[p].op = "NewPost"
        /\ res[p].err = ErrorRepositoryUserAlreadyExsist
        /\ r.idempotency_key = req[p].key
        /\ r.author_id # req[p].userId

\* C3: the status of a post, once stored as published, is never draft again,
\* also when EditPost and PublishPost on the post run concurrently.
C3_PublishedIsFinal ==
    [][\A r \in posts : r.status = Published =>
          \A r2 \in posts' : r2.post_id = r.post_id => r2.status = Published]_vars

\* C4: an Image row is deleted only by a DeleteImage call whose user is the
\* author of the post the Image row belongs to.
C4_DeleteOnlyByOwnerOfImagePost ==
    [][\A r \in images : r \notin images' =>
          \E p \in Procs :
             /\ pc[p] = "DeleteImage_row"
             /\ req[p].imageId = r.image_id
             /\ AuthorOf(r.post_id) = req[p].userId]_vars

\* C5: every Image row has its blob in the bucket, in every state: between
\* the store calls of AddImage and DeleteImage, after a crash, after a failed
\* store call, under concurrent calls.
C5_RowHasBlob ==
    \A r \in images : UUIDString(r.image_id) \in objects

\* C5 witness: the process died in DeleteImage after the row was deleted;
\* the blob is an orphan and no row refers to it
C5_Witness ==
    \E p \in Procs :
        /\ pc[p] = "done" /\ req[p].op = "DeleteImage" /\ res[p].err = Crashed
        /\ UUIDString(req[p].imageId) \in objects
        /\ DeletedImageRows(images, req[p].imageId) = {}

\* the worker p ends its call with success in this step
Succeeds(p) == pc[p] # "done" /\ pc'[p] = "done" /\ res'[p].err = NoError

\* the worker p has answered a RefreshToken call for token t with success
RefreshedWith(p, t) ==
    /\ pc[p] = "done" /\ req[p].op = "RefreshToken"
    /\ res[p].err = NoError /\ req[p].token = t

\* t is the refresh token stored on the row of its user; a Refresh with a
\* live token passes the validation and the comparison with the stored token
Stored(t) == \E r \in users : r.user_id = t.sub /\ r.refresh_token = t
Live(t) == t \in issued /\ t.n > expired /\ Stored(t)

C7_OneLiveTokenPerUser ==
    /\ [](\A t1, t2 \in issued :
            (Live(t1) /\ Live(t2) /\ t1.sub = t2.sub) => t1 = t2)
    /\ [][\A p \in Procs :
            (Succeeds(p) /\ req[p].op \in {"LoginUser", "RefreshToken"}
                         /\ loc'[p] # NoLoc) =>
               \A t \in issued :
                  (t.sub = loc[p].userId /\ t # loc[p].refreshToken) => ~ Live(t)']_vars
    /\ [][\A p \in Procs :
            (Accepted(p) /\ req'[p].op = "RefreshToken" /\ ~ Live(req'[p].token)) =>
               /\ pc'[p] = "done"
               /\ res'[p].err = ErrorInvalidToken]_vars

\* C7 witness: after a Login of the user, a Refresh with the unexpired token
\* of the registration was answered InvalidToken
C7_Witness ==
    \E p \in Procs, r \in users :
        /\ pc[p] = "done" /\ req[p].op = "RefreshToken"
        /\ res[p].err = ErrorInvalidToken
        /\ req[p].token \in issued /\ req[p].token.n > expired
        /\ req[p].token.n <= 2
        /\ r.user_id = req[p].token.sub
        /\ r.refresh_token.n > req[p].token.n

AuthorOnlyOps == {"EditPost", "PublishPost", "AddImage", "DeleteImage"}

\* the worker p is between two store calls of its service method
Working(p) == pc[p] \notin {"idle", "done"}

\* C8: EditPost, PublishPost, AddImage and DeleteImage called by a user who
\* is not the author of the post postId fail with NoAccess (403) in the first
\* step, and the step changes no post row, no Image row and no object; no
\* later step of the call exists, and the stores change only in steps of
\* calls by the author of their post.
C8_NoAccessChangesNothing ==
    /\ [][\A p \in Procs :
            (/\ Accepted(p)
             /\ req'[p].op \in AuthorOnlyOps
             /\ AuthorOf(req'[p].postId) \notin {0, req'[p].userId}) =>
               /\ pc'[p] = "done"
               /\ res'[p] = [err |-> ErrorServiceNoAccess, status |-> 403]
               /\ posts' = posts /\ images' = images /\ objects' = objects]_vars
    /\ [][(posts' # posts \/ images' # images \/ objects' # objects) =>
            \E p \in Procs :
               /\ Working(p) /\ pc'[p] # pc[p]
               /\ AuthorOf(req[p].postId) = req[p].userId]_vars

\* C8 witness: each of the four operations has answered NoAccess to a user
\* who is not the author
C8_Witness ==
    \E p \in Procs :
        /\ pc[p] = "done" /\ req[p].op = "DeleteImage"
        /\ res[p].err = ErrorServiceNoAccess
        /\ AuthorOf(req[p].postId) # req[p].userId
        /\ DeletedImageRows(images, req[p].imageId) # {}

\* C9: PublishPost by the author with a status other than published fails
\* with IncorrectData (400) in its first step; the call never reaches the
\* update, and a post row changes only in the update step of an EditPost or
\* of a PublishPost that requested published.
C9_IncorrectDataChangesNothing ==
    /\ [](\A p \in Procs :
            (req[p].op = "PublishPost" /\ req[p].status # Published) =>
               /\ pc[p] = "done"
               /\ AuthorOf(req[p].postId) = req[p].userId =>
                     res[p] = [err |-> ErrorServiceIncorrectData, status |-> 400])
    /\ [][\A p \in Procs :
            (Accepted(p) /\ req'[p].op = "PublishPost" /\ req'[p].status # Published)
               => posts' = posts]_vars
    /\ [][posts' # posts =>
            \E p \in Procs :
               \/ pc[p] = "EditPost_update"
               \/ pc[p] = "PublishPost_update" /\ req[p].status = Published]_vars

\* C9 witness: the author asked for status draft on a published post and got
\* IncorrectData
C9_Witness ==
    \E p \in Procs, r \in posts :
        /\ pc[p] = "done" /\ req[p].op = "PublishPost"
        /\ req[p].status = Draft
        /\ res[p].err = ErrorServiceIncorrectData
        /\ r.post_id = req[p].postId /\ r.author_id = req[p].userId
        /\ r.status = Published

\* C10: a CreatePost accepted while a Post with its key exists fails with
\* IdempotencyKeyAlreadyUsed in its first step, whoever the requester is;
\* the call ends there (no insert), the Post rows are unchanged and the
\* handler answers 409.
C10_ExistingKeyRejected ==
    [][\A p \in Procs :
          (/\ Accepted(p)
           /\ req'[p].op = "NewPost"
           /\ \E r \in posts : r.idempotency_key = req'[p].key) =>
             /\ pc'[p] = "done"
             /\ res'[p] = [err |-> ErrorKeyIdempotencyAlreadyUsed, status |-> 409]
             /\ posts' = posts /\ postSeq' = postSeq]_vars

\* C10 witness: a create by another author than the one who holds the key
\* was answered 409
C10_Witness ==
    \E p \in Procs, r \in posts :
        /\ pc[p] = "done" /\ req[p].op = "NewPost"
        /\ res[p].status = 409
        /\ r.idempotency_key = req[p].key
        /\ r.author_id # req[p].userId

\* C11: for every email at most one User row exists; a Register with a role
\* of the enum, accepted while no row has its email, succeeds and creates the
\* row; accepted while a row has its email, in any retry and from any worker,
\* it fails with UserAlreadyExists (403) and creates no row.
C11_OneRegisterPerEmail ==
    /\ [](\A r1, r2 \in users : r1.email = r2.email => r1 = r2)
    /\ [][\A p \in Procs :
            (/\ Accepted(p)
             /\ req'[p].op = "RegistrateUser"
             /\ req'[p].role \in {Author, Reader}) =>
               /\ pc'[p] = "done"
               /\ IF \E r \in users : r.email = req'[p].email
                     THEN /\ res'[p] = [err |-> ErrorRepositoryUserAlreadyExsist,
                                        status |-> 403]
                          /\ users' = users
                     ELSE /\ res'[p] = [err |-> NoError, status |-> 200]
                          /\ \E r \in users' :
                                /\ r.email = req'[p].email
                                /\ users' = users \cup {r}]_vars

\* C11 witness: one Register of an email has succeeded and a retry with the
\* same email, held by another worker, was answered UserAlreadyExists
C11_Witness ==
    \E p, q \in Procs :
        /\ p # q
        /\ pc[p] = "done" /\ req[p].op = "RegistrateUser" /\ res[p].err = NoError
        /\ pc[q] = "done" /\ req[q].op = "RegistrateUser"
        /\ req[q].email = req[p].email
        /\ res[q].err = ErrorRepositoryUserAlreadyExsist
        /\ Cardinality({r \in users : r.email = req[p].email}) = 1

\* C12: a Login whose password does not match the hash of the row of its
\* email and a Login whose email has no row end in their first step with the
\* same error (EmailNotExist), the same status (403) and the same body, and
\* leave every User row, the stored refresh token with it, unchanged.
C12_WrongPasswordAsUnknownEmail ==
    [][\A p \in Procs :
          (/\ Accepted(p)
           /\ req'[p].op = "LoginUser"
           /\ \/ ~ \E r \in users : r.email = req'[p].email
              \/ \E r \in users : /\ r.email = req'[p].email
                                   /\ r.password_hash # Hash(req'[p].password)) =>
             /\ pc'[p] = "done"
             /\ res'[p] = [err |-> ErrorRepositoryEmailNotExsist, status |-> 403]
             /\ LoginBody(res'[p].err) = <<"Email or password incorrect", "\n">>
             /\ users' = users /\ issued' = issued]_vars

\* C12 witness: a Login with an unknown email and a Login with the wrong
\* password of a registered email have got the same answer
C12_Witness ==
    \E p, q \in Procs :
        /\ pc[p] = "done" /\ req[p].op = "LoginUser"
        /\ pc[q] = "done" /\ req[q].op = "LoginUser"
        /\ GetUserByEmail(users, req[p].email) = {}
        /\ \E r \in GetUserByEmail(users, req[q].email) :
              r.password_hash # Hash(req[q].password)
        /\ res[p] = res[q]
        /\ res[p].status = 403

\* the users of InitGate are rows the registrations reach from the empty store
InitGateReached ==
    /\ users = AddNewUser(AddNewUser({}, 1, "a@x.com", Hash("pw1"), Author, Issue(1, 1), 1),
                          2, "b@x.com", Hash("pw2"), Reader, Issue(2, 2), 2)
    /\ \A p \in Procs : pc[p] = "idle"

\* C13: behind the /post/ routes EditPost, PublishPost, AddImage and
\* DeleteImage are called only with the identity of a User row whose role is
\* author, resolved from a valid bearer token; a request whose token is
\* missing, malformed, invalid or of no user is answered unauthenticated (also
\* when it claims the identity of a reader: identity resolution comes first),
\* a request with the valid token of a reader is answered forbidden; both end
\* in the gate, no store changes and no service method runs for them.
C13_GateBeforePosterCore ==
    /\ [][\A p \in Procs :
            (Accepted(p) /\ req'[p].op \in AuthorOnlyOps) =>
               \E r \in users : r.user_id = req'[p].userId /\ r.role = Author]_vars
    /\ [][\A p \in Procs :
            (Accepted(p) /\ req'[p].op = "PostRoute") =>
               /\ pc'[p] = "done"
               /\ posts' = posts /\ images' = images /\ objects' = objects
               /\ imageSeq' = imageSeq
               /\ IF \/ req'[p].bearer \in {NoHeader, Malformed}
                     \/ ~ req'[p].bearer.valid
                     \/ ~ \E r \in users : r.user_id = req'[p].bearer.sub
                     THEN res'[p].status = 401
                     ELSE /\ res'[p].status = 403
                          /\ \E r \in users : /\ r.user_id = req'[p].bearer.sub
                                               /\ r.role = Reader]_vars
    /\ [][\A p \in Procs :
            (Accepted(p) /\ req'[p].op \notin AuthorOnlyOps) =>
               req'[p].op = "PostRoute"]_vars

\* C13 witness: an invalid token claiming the reader's identity was answered
\* unauthenticated, and the valid token of the reader forbidden
C13_Witness ==
    \E p, q \in Procs :
        /\ pc[p] = "done" /\ req[p].op = "PostRoute"
        /\ req[p].bearer = [kind |-> "Bearer", sub |-> 2, valid |-> FALSE] /\ res[p].status = 401
        /\ pc[q] = "done" /\ req[q].op = "PostRoute"
        /\ req[q].bearer = [kind |-> "Bearer", sub |-> 2, valid |-> TRUE] /\ res[q].status = 403

\* C14: a successful AddImage adds to the bucket the object named by the new
\* image id and to the table the row of that id, and nothing else; a
\* successful DeleteImage of that id by the author removes exactly that row
\* and exactly that object (the name removed is the name uploaded) and
\* nothing else, so that after it neither store holds anything of the image.
C14_AddThenDeleteRestores ==
    /\ [][\A p \in Procs :
            (pc[p] = "AddImage_put" /\ pc'[p] = "AddImage_insert") =>
               /\ objects' = objects \cup {UUIDString(loc[p].imageId)}
               /\ images' = images]_vars
    /\ [][\A p \in Procs :
            (pc[p] = "AddImage_insert" /\ Succeeds(p)) =>
               /\ images' = images \cup
                     {[image_id |-> loc[p].imageId, post_id |-> req[p].postId,
                       image_url |-> ImageLink(UUIDString(loc[p].imageId))]}
               /\ objects' = objects]_vars
    /\ [][\A p \in Procs :
            (pc[p] = "DeleteImage_row" /\ pc'[p] = "DeleteImage_blob") =>
               /\ images' = {r \in images : r.image_id # req[p].imageId}
               /\ objects' = objects]_vars
    /\ [][\A p \in Procs :
            (pc[p] = "DeleteImage_blob" /\ Succeeds(p)) =>
               /\ objects' = objects \ {UUIDString(req[p].imageId)}
               /\ images' = images]_vars
    /\ [](\A p \in Procs :
            (pc[p] = "done" /\ req[p].op = "DeleteImage" /\ res[p].err = NoError) =>
               /\ ~ \E r \in images : r.image_id = req[p].imageId
               /\ UUIDString(req[p].imageId) \notin objects)

\* C14 witness: the author of post 1 added an image to it and deleted it;
\* the table and the bucket are empty as before the upload
C14_Witness ==
    \E p \in Procs :
        /\ pc[p] = "done" /\ req[p].op = "DeleteImage" /\ res[p].err = NoError
        /\ req[p].userId = AuthorOf(req[p].postId)
        /\ imageSeq = 1 /\ req[p].imageId = 1
        /\ images = {} /\ objects = {}

\* the post ids of a listing
ListedIds(listing) == {x.post_id : x \in listing}

\* C15: the listing read for a reader is exactly the posts whose status is
\* published, the listing read for an author is exactly the posts of the
\* requester, drafts included, and any other role is answered 403 with no
\* listing read; the 200 response carries the posts of the listing, so no
\* response to a reader carries a draft.
C15_ListingByRole ==
    /\ [][\A p \in Procs :
            (Accepted(p) /\ req'[p].op = "ViewSelection") =>
               IF req'[p].role = Reader
                  THEN /\ ListedIds(loc'[p].listing) =
                             {r.post_id : r \in {x \in posts : x.status = Published}}
                       /\ \A x \in loc'[p].listing : x.status = Published
               ELSE IF req'[p].role = Author
                  THEN /\ ListedIds(loc'[p].listing) =
                             {r.post_id : r \in {x \in posts : x.author_id = req'[p].userId}}
                       /\ \A x \in loc'[p].listing :
                             \E r \in posts : /\ r.post_id = x.post_id
                                              /\ r.status = x.status
                                              /\ r.author_id = req'[p].userId
               ELSE /\ pc'[p] = "done"
                    /\ res'[p] = [err |-> ErrorHttpIncorrectUser, status |-> 403]
                    /\ loc'[p] = NoLoc]_vars
    /\ [](\A p \in Procs :
            (pc[p] = "done" /\ req[p].op = "ViewSelection" /\ res[p].err = NoError) =>
               /\ res[p].status = 200
               /\ ListedIds(loc[p].response) = ListedIds(loc[p].listing)
               /\ req[p].role = Reader =>
                     \A x \in loc[p].response : x.status = Published
               /\ req[p].role = Author =>
                     \A x \in loc[p].response : x.author.user_id = req[p].userId)

\* C15 witness: with one post published and one draft, a reader was answered
\* the published post alone and the author of the draft was answered its
\* draft
C15_Witness ==
    \E p, q \in Procs :
        /\ pc[p] = "done" /\ req[p].op = "ViewSelection" /\ req[p].role = Reader
        /\ res[p].status = 200 /\ Cardinality(loc[p].response) = 1
        /\ pc[q] = "done" /\ req[q].op = "ViewSelection" /\ req[q].role = Author
        /\ res[q].status = 200
        /\ \E x \in loc[q].response : x.status = Draft
        /\ \E r \in posts : r.status = Draft
        /\ \E r \in posts : r.status = Published

\* C16: a handler of EditPost, Publish, AddImage, DeleteImage, CreatePost or
\* ViewSelection invoked with a request context that carries no resolved user
\* answers 403 "incorrect user" at once: its service method is not called, so
\* the request takes no further step and no table and no object changes.
C16_NoUserForbidden ==
    [][\A p \in Procs :
          (Accepted(p) /\ req'[p].op \in IdentityOps /\ req'[p].userId = NoUser.user_id) =>
             /\ pc'[p] = "done"
             /\ res'[p] = [err |-> ErrorHttpIncorrectUser, status |-> 403]
             /\ loc'[p] = NoLoc
             /\ users' = users /\ posts' = posts /\ images' = images
             /\ objects' = objects /\ postSeq' = postSeq /\ imageSeq' = imageSeq]_vars

\* C16 witness: DeleteImage was invoked without a resolved user, with an
\* existing post in the store, and answered 403
C16_Witness ==
    \E p \in Procs :
        /\ pc[p] = "done" /\ req[p].op = "DeleteImage" /\ req[p].userId = NoUser.user_id
        /\ res[p] = [err |-> ErrorHttpIncorrectUser, status |-> 403]
        /\ posts # {}

\* the worker p has answered a call of one of the four poster service methods
PosterAnswered(p) ==
    /\ pc[p] = "done" /\ req[p].op \in AuthorOnlyOps
    /\ req[p].userId # NoUser.user_id

C19_ConflictLoserGets409 ==
    \A p \in Procs :
        (pc[p] = "done" /\ req[p].op = "NewPost") =>
           /\ res[p].err = NoError => res[p].status = 201
           /\ (res[p].err # NoError
                 /\ \E r \in posts : r.idempotency_key = req[p].key)
                    => res[p].status = 409
           /\ (res[p].err # NoError
                 /\ ~ \E r \in posts : r.idempotency_key = req[p].key)
                    => res[p].status = 502

Uploaded(p) == "link" \in DOMAIN loc[p]

\* C21: when the insert of the Image row fails after the upload, AddImage
\* returns the error of the store and ends: the step writes no row and
\* removes no object, and from then on the blob is in the bucket with no row
\* for its image id.
C21_InsertFailureOrphansBlob ==
    /\ [][\A p \in Procs :
            (pc[p] = "AddImage_insert" /\ pc'[p] = "done" /\ res'[p].err # NoError
                                       /\ res'[p].err # Crashed) =>
               /\ res'[p] = [err |-> StoreFailure, status |-> 502]
               /\ images' = images /\ objects' = objects
               /\ UUIDString(loc[p].imageId) \in objects']_vars
    /\ [](\A p \in Procs :
            (/\ pc[p] = "done" /\ req[p].op = "AddImage"
             /\ res[p].err = StoreFailure /\ Uploaded(p)) =>
               /\ UUIDString(loc[p].imageId) \in objects
               /\ ~ \E r \in images : r.image_id = loc[p].imageId)

\* C21 witness: the insert failed after the upload; the blob is in the
\* bucket and the images table is empty
C21_Witness ==
    \E p \in Procs :
        /\ pc[p] = "done" /\ req[p].op = "AddImage"
        /\ res[p] = [err |-> StoreFailure, status |-> 502]
        /\ Uploaded(p)
        /\ objects = {UUIDString(loc[p].imageId)}
        /\ images = {}

\* the blob delete of worker p fails in this step
BlobDeleteFails(p) ==
    /\ pc[p] = "DeleteImage_blob" /\ pc'[p] = "done"
    /\ objects' = objects
    /\ res'[p].err # Crashed

\* C22 as stated: when the blob delete fails after the row delete, the row
\* stays deleted, the blob stays in the bucket, and the caller is not
\* answered a failure.
C22_BlobFailureNonFatal ==
    [][\A p \in Procs :
          BlobDeleteFails(p) =>
             /\ images' = images
             /\ ~ \E r \in images' : r.image_id = req[p].imageId
             /\ UUIDString(req[p].imageId) \in objects'
             /\ res'[p].err = NoError]_vars

\* C22 amended: when the blob delete fails after the row delete, the row
\* stays deleted (no row is written back), the blob stays in the bucket, and
\* DeleteImage returns the error of the object store, answered 502.
C22_BlobFailureOrphansBlob ==
    [][\A p \in Procs :
          BlobDeleteFails(p) =>
             /\ images' = images
             /\ ~ \E r \in images' : r.image_id = req[p].imageId
             /\ UUIDString(req[p].imageId) \in objects'
             /\ res'[p] = [err |-> StoreFailure, status |-> 502]]_vars

\* C22 witness: an image was added, its DeleteImage deleted the row and was
\* answered 502; the row is gone and the blob is in the bucket
C22_Witness ==
    \E p, q \in Procs :
        /\ pc[q] = "done" /\ req[q].op = "AddImage" /\ res[q].err = NoError
        /\ pc[p] = "done" /\ req[p].op = "DeleteImage"
        /\ req[p].imageId = loc[q].imageId
        /\ res[p] = [err |-> StoreFailure, status |-> 502]
        /\ ~ \E r \in images : r.image_id = req[p].imageId
        /\ UUIDString(req[p].imageId) \in objects

\* C23: a post row that appears is draft, and the status of a stored post
\* changes to published only in the update of a PublishPost call that
\* succeeds, is made by the author of the post and requests published.
C23_PublishedOnlyByPublishPost ==
    [][\A r2 \in posts' :
          /\ (~ \E r \in posts : r.post_id = r2.post_id) => r2.status = Draft
          /\ \A r \in posts :
                (r.post_id = r2.post_id /\ r.status # Published /\ r2.status = Published) =>
                   \E p \in Procs :
                      /\ pc[p] = "PublishPost_update" /\ pc'[p] = "done"
                      /\ res'[p].err = NoError
                      /\ req[p].postId = r.post_id
                      /\ req[p].status = Published
                      /\ req[p].userId = r.author_id]_vars

\* the EditPost call of worker p succeeds in this step
EditPostSucceeds(p) ==
    /\ pc[p] = "EditPost_update" /\ pc'[p] = "done"
    /\ res'[p].err = NoError

C25_EditPostSetsUpdatedAt ==
    [][\A p \in Procs :
          EditPostSucceeds(p) =>
             \A r \in posts, r2 \in posts' :
                (r.post_id = req[p].postId /\ r2.post_id = req[p].postId) =>
                   /\ r2.updated_at > r.updated_at
                   /\ r2.updated_at # r2.created_at]_vars

\* the login or the rotation of worker p writes the refresh token of user
\* id in this step
WritesRefreshToken(p, id) ==
    /\ pc[p] \in {"LoginUser_update", "RefreshToken_update"}
    /\ pc'[p] = "done"
    /\ req[p].op \in {"LoginUser", "RefreshToken"}
    /\ loc[p].userId = id

C27_NoLostUpdate ==
    /\ [](\A p, q \in Procs :
            (/\ pc[p] = "done" /\ req[p].op = "EditPost" /\ res[p].err = NoError
             /\ pc[q] = "done" /\ req[q].op = "PublishPost" /\ res[q].err = NoError
             /\ req[q].postId = req[p].postId) =>
               \A r \in posts :
                  r.post_id = req[p].postId =>
                     /\ r.title = req[p].title /\ r.content = req[p].content
                     /\ r.status = Published)
    /\ [][\A p \in Procs :
            (pc[p] = "PublishPost_update" /\ pc'[p] = "done" /\ res'[p].err = NoError) =>
               \A r \in posts, r2 \in posts' :
                  (r.post_id = req[p].postId /\ r2.post_id = req[p].postId) =>
                     r2.title = r.title /\ r2.content = r.content]_vars

\* C28: in every state the refresh-token expiry of a User row is the expiry
\* of the refresh token stored in the row: a login or a rotation that
\* replaces the token sets the expiry with it.
C28_ExpiryOfStoredToken ==
    \A u \in users : u.refresh_token_expiry_time = u.refresh_token.n

\* worker p holds a DeleteImage call for image i that has deleted the row
\* and has not failed since
DeletesImage(p, i) ==
    /\ req[p].op = "DeleteImage" /\ req[p].imageId = i
    /\ \/ pc[p] = "DeleteImage_blob"
       \/ pc[p] = "done" /\ res[p].err = NoError

\* C29: of the DeleteImage calls for one image, run in any interleaving, at
\* most one deletes the row and succeeds; a call whose DELETE finds no row
\* ends there, with sql.ErrNoRows (404) when the store served the
\* statement, and requests no blob delete; an object leaves the bucket only
\* in the blob delete of the call that deleted its row.
C29_OneDeleteSucceeds ==
    /\ [](\A i \in ImageIds : Cardinality({p \in Procs : DeletesImage(p, i)}) <= 1)
    /\ [][\A p \in Procs :
            (/\ pc[p] = "DeleteImage_row" /\ pc'[p] # "DeleteImage_row"
             /\ DeletedImageRows(images, req[p].imageId) = {}) =>
               /\ pc'[p] = "done"
               /\ objects' = objects
               /\ res'[p].err \notin {StoreFailure, Crashed} =>
                     res'[p] = [err |-> ErrNoRows, status |-> 404]]_vars
    /\ [][\A o \in objects :
            o \notin objects' =>
               \E p \in Procs :
                  /\ pc[p] = "DeleteImage_blob" /\ pc'[p] = "done"
                  /\ UUIDString(req[p].imageId) = o
                  /\ res'[p].err = NoError]_vars

\* C29 witness: two DeleteImage calls of the author for the image that was
\* added have ended, one with success, the other with not-found; the row
\* and the blob are gone
C29_Witness ==
    \E p, q \in Procs :
        /\ p # q
        /\ pc[p] = "done" /\ req[p].op = "DeleteImage"
        /\ pc[q] = "done" /\ req[q].op = "DeleteImage"
        /\ req[p].imageId = req[q].imageId
        /\ req[p].userId = req[q].userId
        /\ AuthorOf(req[p].postId) = req[p].userId
        /\ res[p] = [err |-> NoError, status |-> 201]
        /\ res[q] = [err |-> ErrNoRows, status |-> 404]
        /\ imageSeq = 1 /\ images = {} /\ objects = {}

\* the object o is an orphan: it is in the bucket, no Image row names it,
\* and no call is between its upload and its insert or between the delete
\* of its row and the delete of the blob
Orphan(o) ==
    /\ o \in objects
    /\ ~ \E r \in images : UUIDString(r.image_id) = o
    /\ ~ \E p \in Procs :
            \/ pc[p] = "AddImage_insert" /\ UUIDString(loc[p].imageId) = o
            \/ pc[p] = "DeleteImage_blob" /\ UUIDString(req[p].imageId) = o

\* C30: an orphan stays in the bucket and stays an orphan in every step;
\* a DeleteImage call for its id ends at the row delete, with sql.ErrNoRows
\* (404) when the store served the statement, and never goes on to the
\* blob delete.
C30_OrphanNeverReclaimed ==
    /\ [][\A o \in objects : Orphan(o) => Orphan(o)']_vars
    /\ [][\A p \in Procs :
            (/\ pc[p] = "DeleteImage_row" /\ pc'[p] # "DeleteImage_row"
             /\ Orphan(UUIDString(req[p].imageId))) =>
               /\ pc'[p] = "done"
               /\ res'[p].err # NoError
               /\ res'[p].err \notin {StoreFailure, Crashed} =>
                     res'[p] = [err |-> ErrNoRows, status |-> 404]]_vars

\* C30 witness: the insert of an AddImage failed after the upload, a later
\* DeleteImage for that id was answered not-found, and the blob is in the
\* bucket without a row
C30_Witness ==
    \E p, q \in Procs :
        /\ pc[p] = "done" /\ req[p].op = "AddImage"
        /\ res[p].err = StoreFailure /\ Uploaded(p)
        /\ pc[q] = "done" /\ req[q].op = "DeleteImage"
        /\ req[q].imageId = loc[p].imageId
        /\ res[q] = [err |-> ErrNoRows, status |-> 404]
        /\ Orphan(UUIDString(loc[p].imageId))
====
